---- MODULE Spec2Model ----
(***************************************************************************)
(* A model of the netobserv eBPF agent's record layer                      *)
(* (pkg/model/record.go) and of the e2e test-cluster set-up                *)
(* (e2e/cluster/kind.go).                                                  *)
(*                                                                         *)
(* Conventions.                                                            *)
(*  - A Go pointer or slice that may be nil is a sequence: <<>> is nil,    *)
(*    <<v>> is a pointer to v.  A net.IP is the sequence of its bytes.     *)
(*  - uint64 / int64 values are WordBits wide; every conversion and        *)
(*    subtraction wraps as the 64-bit one does.                            *)
(*  - time.Time is an integer count of nanoseconds.  time.Time counts      *)
(*    seconds in 64 bits, so adding a 64-bit nanosecond Duration to a      *)
(*    wall-clock sample never leaves its range: Add is exact.              *)
(*  - A string built by fmt.Sprintf is the tuple of its parts.             *)
(***************************************************************************)
EXTENDS Integers, Sequences, FiniteSets, TLC

VARIABLES
    agentIP,         \* record.go: var agentIP net.IP
    interfaceNamer,  \* record.go: var interfaceNamer InterfaceNamer
    lastSet,         \* history: <<>> or <<arguments of the latest SetGlobals>>
    call,            \* <<>> or <<the call just made, with its arguments and its result>>
    source,          \* the io.Reader given to ReadFrom: everything it will deliver
    pos,             \* the reader's position: index of the next undelivered item
    reads,           \* history: the ReadFrom calls made on the source, in order
    heap,            \* the backing arrays of the slices: array id -> its elements
    nextArr,         \* the id the next allocated array gets
    work,            \* per worker: its NewRecord call, where it stands, its record
    defaultBaseDeployments,  \* kind.go: the package-level map DeployID -> Deployment
    kinds,           \* the Kind objects created by NewKind, in order
    ran              \* <<>> or <<the Kind that Run was called on, and what Run built>>

recordVars == <<agentIP, interfaceNamer, lastSet, call>>

readVars == <<source, pos, reads>>

concVars == <<heap, nextArr, work>>

kindVars == <<defaultBaseDeployments, kinds, ran>>

----------------------------------------------------------------------------
(* Bounds and program constants *)

\* width of a machine word in the model (64 in the program)
WordBits == 3

Modulus == 2 ^ WordBits

Words == 0 .. (Modulus - 1)

MinInt == -(Modulus \div 2)

DirectionIngress == 0
DirectionEgress == 1
NetworkEventsMaxEventsMD == 8
MaxNetworkEvents == 4
MaxObservedInterfaces == 4
IPv6len == 16
IPv4len == 4

----------------------------------------------------------------------------
(* Machine arithmetic used by NewRecord *)

\* faulty variant: the difference is clamped at zero
SubU64_Saturating(a, b) == IF a < b THEN 0 ELSE a - b

\* a - b on uint64
SubU64(a, b) == (a - b) % Modulus

\* time.Duration(u) for a uint64 u: the same bits read as int64
ToDuration(u) == IF u >= Modulus \div 2 THEN u - Modulus ELSE u

\* -d on int64: the most negative value is its own negation
NegDuration(d) == IF d = MinInt THEN d ELSE -d

\* t.Add(d)
TimeAdd(t, d) == t + d

----------------------------------------------------------------------------
(* Interface namers *)

\* the namers a caller can hand to SetGlobals; "unset" is the one installed at
\* package initialisation
Namers == {"byIndex", "constLo"}

\* interfaceNamer(ifIndex)
ApplyNamer(namer, ifIndex) ==
    CASE namer = "unset"   -> <<"[namer unset] ", ifIndex>>
      [] namer = "byIndex" -> <<"eth", ifIndex>>
      [] namer = "constLo" -> <<"lo", 0>>

NewIntfDir(intf, dir) == [Interface |-> intf, Direction |-> dir]

----------------------------------------------------------------------------
(* SetGlobals *)

\* faulty variant: the namer is not stored
SetGlobalsValues_KeepNamer(ip, ifaceNamer) ==
    [agentIP |-> ip, interfaceNamer |-> interfaceNamer]

\* the values of the two package variables after SetGlobals(ip, ifaceNamer)
SetGlobalsValues(ip, ifaceNamer) ==
    [agentIP |-> ip, interfaceNamer |-> ifaceNamer]

----------------------------------------------------------------------------
(* NewRecord *)

\* faulty variant: the end time is computed from the start delta
FlowTimes_SameDelta(metrics, currentTime, monotonicCurrentTime) ==
    LET startDelta == ToDuration(SubU64(monotonicCurrentTime, metrics.StartMonoTimeTs))
    IN  [TimeFlowStart |-> TimeAdd(currentTime, NegDuration(startDelta)),
         TimeFlowEnd   |-> TimeAdd(currentTime, NegDuration(startDelta))]

\* lines 75-76 and 81-82: the two reconstructed wall-clock times
FlowTimes(metrics, currentTime, monotonicCurrentTime) ==
    LET startDelta == ToDuration(SubU64(monotonicCurrentTime, metrics.StartMonoTimeTs))
        endDelta   == ToDuration(SubU64(monotonicCurrentTime, metrics.EndMonoTimeTs))
    IN  [TimeFlowStart |-> TimeAdd(currentTime, NegDuration(startDelta)),
         TimeFlowEnd   |-> TimeAdd(currentTime, NegDuration(endDelta))]

\* line 84: the one-element slice literal
FirstSeen(namer, metrics) ==
    << NewIntfDir(ApplyNamer(namer, metrics.IfIndexFirstSeen), metrics.DirectionFirstSeen) >>

\* faulty variant: the loop stops one entry early
RECURSIVE ObservedLoop_SkipLast(_, _, _, _)
ObservedLoop_SkipLast(namer, am, i, intfs) ==
    IF i + 1 >= am.NbObservedIntf
    THEN [ok |-> TRUE, intfs |-> intfs]
    ELSE IF i >= MaxObservedInterfaces
    THEN [ok |-> FALSE, intfs |-> intfs]
    ELSE ObservedLoop_SkipLast(namer, am, i + 1,
            Append(intfs, NewIntfDir(ApplyNamer(namer, am.ObservedIntf[i + 1].IfIndex),
                                     am.ObservedIntf[i + 1].Direction)))

\* lines 87-92: the loop over the observed interfaces, from index i on.
\* ObservedIntf is an array of MaxObservedInterfaces entries: indexing it
\* beyond that panics (ok = FALSE).  Go indexes from 0, the model from 1.
RECURSIVE ObservedLoop(_, _, _, _)
ObservedLoop(namer, am, i, intfs) ==
    IF i >= am.NbObservedIntf
    THEN [ok |-> TRUE, intfs |-> intfs]
    ELSE IF i >= MaxObservedInterfaces
    THEN [ok |-> FALSE, intfs |-> intfs]
    ELSE ObservedLoop(namer, am, i + 1,
            Append(intfs, NewIntfDir(ApplyNamer(namer, am.ObservedIntf[i + 1].IfIndex),
                                     am.ObservedIntf[i + 1].Direction)))

\* faulty variant: the RTT is guarded by the DNS latency
TimeFlowRttOf_FromLatency(am) ==
    IF am.DnsRecord.Latency # 0 THEN ToDuration(am.FlowRtt) ELSE 0

\* lines 93-95: TimeFlowRtt, whose zero value is 0
TimeFlowRttOf(am) == IF am.FlowRtt # 0 THEN ToDuration(am.FlowRtt) ELSE 0

\* lines 96-98: DNSLatency, whose zero value is 0
DNSLatencyOf(am) ==
    IF am.DnsRecord.Latency # 0 THEN ToDuration(am.DnsRecord.Latency) ELSE 0

\* NewRecord(key, metrics, currentTime, monotonicCurrentTime) run to its end
\* with no other code in between: [ok, rec], ok = FALSE when it panics.
NewRecord(key, metrics, currentTime, monotonicCurrentTime) ==
    LET times == FlowTimes(metrics, currentTime, monotonicCurrentTime)
        first == FirstSeen(interfaceNamer, metrics)
        am    == metrics.AdditionalMetrics
        loop  == IF am # <<>>
                 THEN ObservedLoop(interfaceNamer, am[1], 0, first)
                 ELSE [ok |-> TRUE, intfs |-> first]
    IN  [ok  |-> loop.ok,
         rec |-> [ID            |-> key,
                  Metrics       |-> metrics,
                  TimeFlowStart |-> times.TimeFlowStart,
                  TimeFlowEnd   |-> times.TimeFlowEnd,
                  AgentIP       |-> agentIP,
                  Interfaces    |-> loop.intfs,
                  TimeFlowRtt   |-> IF am # <<>> THEN TimeFlowRttOf(am[1]) ELSE 0,
                  DNSLatency    |-> IF am # <<>> THEN DNSLatencyOf(am[1]) ELSE 0,
                  NetworkMonitorEventsMD |-> <<>>]]

----------------------------------------------------------------------------
(* Event metadata tags and addresses *)

\* reflect.DeepEqual on two arrays of bytes
DeepEqual(a, b) == a = b

RECURSIVE ExistFrom_SkipLast(_, _, _)
\* faulty variant: the last slot is never looked at
ExistFrom_SkipLast(events, md, i) ==
    IF i >= MaxNetworkEvents THEN FALSE
    ELSE IF DeepEqual(events[i], md) THEN TRUE
    ELSE ExistFrom_SkipLast(events, md, i + 1)

\* lines 112-117: the range loop over the slots, from slot i on
RECURSIVE ExistFrom(_, _, _)
ExistFrom(events, md, i) ==
    IF i > MaxNetworkEvents THEN FALSE
    ELSE IF DeepEqual(events[i], md) THEN TRUE
    ELSE ExistFrom(events, md, i + 1)

networkEventsMDExist(events, md) == ExistFrom(events, md, 1)

RECURSIVE AllZerosFrom(_, _)
AllZerosFrom(s, i) ==
    IF i > NetworkEventsMaxEventsMD THEN TRUE
    ELSE IF s[i] # 0 THEN FALSE
    ELSE AllZerosFrom(s, i + 1)

AllZerosMetaData(s) == AllZerosFrom(s, 1)

\* faulty variant: a v4-mapped address is shortened to its 4-byte form
IP_To4(ia) ==
    IF /\ \A i \in 1 .. 10 : ia[i] = 0
       /\ ia[11] = 255 /\ ia[12] = 255
    THEN SubSeq(ia, IPv6len - IPv4len + 1, IPv6len)
    ELSE ia

\* IP(ia): the slice ia[:] over the array passed by value
IP(ia) == SubSeq(ia, 1, Len(ia))

\* IPAddrFromNetIP(netIP): netIP[0:16] panics (ok = FALSE) on a shorter
\* slice; copy fills the zeroed array from it
IPAddrFromNetIP(netIP) ==
    IF Len(netIP) < IPv6len
    THEN [ok |-> FALSE, arr |-> [i \in 1 .. IPv6len |-> 0]]
    ELSE [ok |-> TRUE,  arr |-> [i \in 1 .. IPv6len |-> SubSeq(netIP, 1, IPv6len)[i]]]

----------------------------------------------------------------------------
(* ReadFrom and its byte source *)

\* size in bytes of the fixed-layout RawRecord in the model: a one-byte field
\* A followed by a little-endian field B of RecordBytes - 1 bytes
RecordBytes == 3

\* records written to one source
MaxWritten == 2

\* ReadFrom calls made on one source
MaxReads == 4

\* the records the producer writes; their bytes are <<1, 1, 2>> and <<2, 2, 1>>
\* (followed by zeros in a wider record)
RecordValues == { [A |-> 1, B |-> 513], [A |-> 2, B |-> 258] }

ZeroRecord == [A |-> 0, B |-> 0]

\* the producer's encoding: fields in order, each in little-endian order
Encode(rec) ==
    <<rec.A>> \o [i \in 1 .. (RecordBytes - 1) |-> (rec.B \div (256 ^ (i - 1))) % 256]

RECURSIVE LittleEndian(_, _)
\* the unsigned integer whose little-endian bytes are bytes[i], bytes[i+1], ...
LittleEndian(bytes, i) ==
    IF i > Len(bytes) THEN 0 ELSE bytes[i] + 256 * LittleEndian(bytes, i + 1)

\* binary.Read's decoding of a full buffer into the RawRecord
Decode(buf) == [A |-> buf[1], B |-> LittleEndian(buf, 2)]

ByteItem(w, off, val) == [kind |-> "byte", rec |-> w, off |-> off, val |-> val]

\* the reader returns an error instead of bytes: "eof" when it has nothing
\* more for now, "err" when the read fails
Marker(kind) == [kind |-> kind, rec |-> 0, off |-> 0, val |-> 0]

\* what the source delivers of the w-th written record:
\*   whole      all its bytes
\*   cut k m    its first k bytes, then marker m; the rest is never delivered
\*   split k m  its first k bytes, then marker m, then the rest of its bytes
Deliveries ==
    { <<"whole", 0, "eof">> } \cup
    { <<how, k, m>> : how \in {"cut", "split"}, k \in 0 .. (RecordBytes - 1),
                      m \in {"eof", "err"} }

Delivered(w, rec, d) ==
    LET bytes == Encode(rec)
        items == [i \in 1 .. RecordBytes |-> ByteItem(w, i - 1, bytes[i])]
    IN  CASE d[1] = "whole" -> items
          [] d[1] = "cut"   -> SubSeq(items, 1, d[2]) \o <<Marker(d[3])>>
          [] d[1] = "split" -> SubSeq(items, 1, d[2]) \o <<Marker(d[3])>>
                               \o SubSeq(items, d[2] + 1, RecordBytes)

RECURSIVE Stream(_, _, _)
\* the items delivered for the written records w, w + 1, ...
Stream(written, how, w) ==
    IF w > Len(written) THEN <<>>
    ELSE Delivered(w, written[w], how[w]) \o Stream(written, how, w + 1)

Sources ==
    UNION { { Stream(written, how, 1) :
                written \in [1 .. n -> RecordValues], how \in [1 .. n -> Deliveries] } :
            n \in 0 .. MaxWritten }

\* the error of a read that got n bytes and then the end of the data
EndError(n) == IF n = 0 THEN "EOF" ELSE "ErrUnexpectedEOF"

\* faulty variant: a short read at the end of the data is taken for a full one
RECURSIVE ReadFull_ShortOK(_, _, _)
ReadFull_ShortOK(src, p, buf) ==
    IF Len(buf) = RecordBytes
    THEN [buf |-> buf, pos |-> p, err |-> "nil"]
    ELSE IF p > Len(src)
    THEN [buf |-> buf \o [i \in 1 .. (RecordBytes - Len(buf)) |-> 0], pos |-> p,
          err |-> IF Len(buf) = 0 THEN "EOF" ELSE "nil"]
    ELSE IF src[p].kind = "byte"
    THEN ReadFull_ShortOK(src, p + 1, Append(buf, src[p].val))
    ELSE [buf |-> buf, pos |-> p + 1,
          err |-> IF src[p].kind = "eof" THEN EndError(Len(buf)) ELSE "ErrRead"]

\* io.ReadFull into a buffer of RecordBytes bytes, as binary.Read calls it:
\* Read is called until the buffer is full or a Read returns an error.
\* Past the last item the source is at its end: Read returns io.EOF.
RECURSIVE ReadFull(_, _, _)
ReadFull(src, p, buf) ==
    IF Len(buf) = RecordBytes
    THEN [buf |-> buf, pos |-> p, err |-> "nil"]
    ELSE IF p > Len(src)
    THEN [buf |-> buf, pos |-> p, err |-> EndError(Len(buf))]
    ELSE IF src[p].kind = "byte"
    THEN ReadFull(src, p + 1, Append(buf, src[p].val))
    ELSE [buf |-> buf, pos |-> p + 1,
          err |-> IF src[p].kind = "eof" THEN EndError(Len(buf)) ELSE "ErrRead"]

\* ReadFrom(reader): the record is decoded from a full buffer only; on an
\* error the zero-valued record is returned with the error
ReadFrom(src, p) ==
    LET r == ReadFull(src, p, <<>>) IN
    [rec |-> IF r.err = "nil" THEN Decode(r.buf) ELSE ZeroRecord,
     err |-> r.err, pos |-> r.pos]

\* A Read may return its last bytes together with an error; io.ReadFull drops
\* the error of the Read that fills the buffer.
ReadFromCall ==
    /\ Len(reads) < MaxReads
    /\ LET r == ReadFrom(source, pos) IN
       \E swallow \in BOOLEAN :
          /\ swallow => ( /\ r.err = "nil"
                          /\ r.pos <= Len(source)
                          /\ source[r.pos].kind # "byte" )
          /\ pos' = IF swallow THEN r.pos + 1 ELSE r.pos
          /\ reads' = Append(reads, [from |-> pos, to |-> pos', rec |-> r.rec,
                                     err |-> r.err])
    /\ UNCHANGED <<source, recordVars, concVars, kindVars>>

----------------------------------------------------------------------------
(* The calls made on the record layer *)

\* wall-clock samples
CurrentTimes == {1000, 2000}

\* addresses handed to SetGlobals
AgentIPs == {<<10, 0, 0, 1>>, <<192, 168, 0, 7>>}

\* contents of the ObservedIntf array; both hold a repeated pair
ObservedArrays ==
    { << [IfIndex |-> 1, Direction |-> DirectionIngress],
         [IfIndex |-> 2, Direction |-> DirectionEgress],
         [IfIndex |-> 1, Direction |-> DirectionIngress],
         [IfIndex |-> 3, Direction |-> DirectionEgress] >>,
      << [IfIndex |-> 2, Direction |-> DirectionEgress],
         [IfIndex |-> 2, Direction |-> DirectionEgress],
         [IfIndex |-> 1, Direction |-> DirectionEgress],
         [IfIndex |-> 1, Direction |-> DirectionIngress] >> }

\* uint64 durations: zero, small, and the two sides of the sign bit
DurationWords == {0, 1, Modulus \div 2 - 1, Modulus \div 2, Modulus - 1}

\* NbObservedIntf within the capacity of the array, and one beyond it
ObservedCounts == 0 .. (MaxObservedInterfaces + 1)

AdditionalMetricsInputs ==
    { [NbObservedIntf |-> n, ObservedIntf |-> a, FlowRtt |-> r,
       DnsRecord |-> [Latency |-> l]] :
        n \in ObservedCounts, a \in ObservedArrays,
        r \in DurationWords, l \in DurationWords }

SampleAdditionalMetrics ==
    [NbObservedIntf |-> 2,
     ObservedIntf   |-> CHOOSE a \in ObservedArrays : a[1].IfIndex = 1,
     FlowRtt        |-> 1,
     DnsRecord      |-> [Latency |-> 0]]

\* metrics whose two timestamps take every value
TimeMetricsInputs ==
    { [StartMonoTimeTs |-> s, EndMonoTimeTs |-> e,
       IfIndexFirstSeen |-> 3, DirectionFirstSeen |-> DirectionIngress,
       AdditionalMetrics |-> am] :
        s \in Words, e \in Words, am \in {<<>>, <<SampleAdditionalMetrics>>} }

\* metrics whose interfaces and optional block take every value
InterfaceMetricsInputs ==
    { [StartMonoTimeTs |-> 1, EndMonoTimeTs |-> 2,
       IfIndexFirstSeen |-> i, DirectionFirstSeen |-> d,
       AdditionalMetrics |-> am] :
        i \in {1, 3}, d \in {DirectionIngress, DirectionEgress},
        am \in {<<>>} \cup { <<a>> : a \in AdditionalMetricsInputs } }

MetricsInputs == TimeMetricsInputs \cup InterfaceMetricsInputs

Keys == {"flowA"}

\* tags: empty, and three that differ in their first or last byte
Tags ==
    { <<0, 0, 0, 0, 0, 0, 0, 0>>, <<1, 0, 0, 0, 0, 0, 0, 0>>,
      <<0, 0, 0, 0, 0, 0, 0, 1>>, <<1, 0, 0, 0, 0, 0, 0, 1>> }

EventArrays == [1 .. MaxNetworkEvents -> Tags]

\* 16-byte addresses: v4-mapped (::ffff:a.b.c.d), native v6, and the rest
IPAddrInputs ==
    { <<h, 0, 0, 0, 0, 0, 0, 0, 0, 0, m, m, 0, 0, y, z>> :
        h \in {0, 32, 254}, m \in {0, 255}, y \in {0, 1, 255}, z \in {0, 1, 255} }

----------------------------------------------------------------------------
(* NewRecord run by concurrent workers, on slices with backing arrays *)

\* concurrent callers of NewRecord
NumWorkers == 2

\* changes made to one returned record by the code that receives it
MaxMutations == 1

Workers == 1 .. NumWorkers

\* a slice header; array 0 is no array: the nil slice and the empty slice made
\* by make([]T, 0) have capacity 0
Slice(arr, len, cap) == [arr |-> arr, len |-> len, cap |-> cap]

NilSlice == Slice(0, 0, 0)

\* the elements of slice s
Elements(h, s) == IF s.len = 0 THEN <<>> ELSE SubSeq(h[s.arr], 1, s.len)

\* faulty variant: one array, allocated once, backs every slice
NewArray_Shared(next) == 1

\* the id of a newly allocated backing array
NewArray(next) == next

\* the heap with array id holding elems and room for cap elements
Allocate(h, id, elems, cap) ==
    LET arr == [i \in 1 .. cap |-> IF i <= Len(elems) THEN elems[i] ELSE <<>>]
    IN  IF id <= Len(h) THEN [h EXCEPT ![id] = arr] ELSE Append(h, arr)

\* append(s, x): in place when the capacity allows, else into a new array of
\* twice the capacity holding a copy of the elements
GoAppend(h, next, s, x) ==
    IF s.len < s.cap
    THEN [heap  |-> [h EXCEPT ![s.arr][s.len + 1] = x],
          next  |-> next,
          slice |-> Slice(s.arr, s.len + 1, s.cap)]
    ELSE LET cap == IF s.cap = 0 THEN 1 ELSE 2 * s.cap
             id  == NewArray(next)
         IN  [heap  |-> Allocate(h, id, Append(Elements(h, s), x), cap),
              next  |-> next + 1,
              slice |-> Slice(id, s.len + 1, cap)]

\* the inputs of the concurrent calls: no AdditionalMetrics, one and two
\* observed interfaces, and a count beyond the capacity
ConcMetricsInputs ==
    { m \in InterfaceMetricsInputs :
        /\ m.IfIndexFirstSeen = 3
        /\ m.AdditionalMetrics # <<>> =>
              /\ m.AdditionalMetrics[1].NbObservedIntf \in {1, 2, MaxObservedInterfaces + 1}
              /\ m.AdditionalMetrics[1].ObservedIntf[1].IfIndex = 1
              /\ m.AdditionalMetrics[1].FlowRtt = 1
              /\ m.AdditionalMetrics[1].DnsRecord.Latency = 0
              /\ (m.AdditionalMetrics[1].NbObservedIntf > 1
                    => m.DirectionFirstSeen = DirectionIngress) }

IdleWorker ==
    [pc |-> "idle", key |-> "", metrics |-> <<>>, currentTime |-> 0,
     monotonicCurrentTime |-> 0, i |-> 0, rec |-> <<>>, muts |-> 0, expect |-> <<>>]

\* lines 75-85: the deltas and the record literal, with its one-element slice
Begin(w) ==
    /\ work[w].pc = "idle"
    /\ \E key \in Keys, metrics \in ConcMetricsInputs,
          currentTime \in {1000}, monotonicCurrentTime \in {Modulus - 1} :
        LET times == FlowTimes(metrics, currentTime, monotonicCurrentTime)
            first == FirstSeen(interfaceNamer, metrics)
            id    == NewArray(nextArr)
            rec   == [ID            |-> key,
                      Metrics       |-> metrics,
                      TimeFlowStart |-> times.TimeFlowStart,
                      TimeFlowEnd   |-> times.TimeFlowEnd,
                      AgentIP       |-> agentIP,
                      Interfaces    |-> Slice(id, 1, 1),
                      TimeFlowRtt   |-> 0,
                      DNSLatency    |-> 0,
                      NetworkMonitorEventsMD |-> NilSlice]
        IN  /\ heap' = Allocate(heap, id, first, 1)
            /\ nextArr' = nextArr + 1
            /\ work' = [work EXCEPT ![w] =
                  [pc |-> IF metrics.AdditionalMetrics # <<>> THEN "loop" ELSE "make",
                   key |-> key, metrics |-> metrics, currentTime |-> currentTime,
                   monotonicCurrentTime |-> monotonicCurrentTime,
                   i |-> 0, rec |-> rec, muts |-> 0,
                   expect |-> NewRecord(key, metrics, currentTime, monotonicCurrentTime)]]
    /\ UNCHANGED <<recordVars, readVars, kindVars>>

\* lines 87-92: one turn of the loop, or its end
LoopStep(w) ==
    /\ work[w].pc = "loop"
    /\ LET am == work[w].metrics.AdditionalMetrics[1]
           i  == work[w].i
       IN  IF i >= am.NbObservedIntf
           THEN /\ work' = [work EXCEPT ![w].pc = "metrics"]
                /\ UNCHANGED <<heap, nextArr>>
           ELSE IF i >= MaxObservedInterfaces
           THEN /\ work' = [work EXCEPT ![w].pc = "panic"]
                /\ UNCHANGED <<heap, nextArr>>
           ELSE LET a == GoAppend(heap, nextArr, work[w].rec.Interfaces,
                             NewIntfDir(ApplyNamer(interfaceNamer, am.ObservedIntf[i + 1].IfIndex),
                                        am.ObservedIntf[i + 1].Direction))
                IN  /\ heap' = a.heap
                    /\ nextArr' = a.next
                    /\ work' = [work EXCEPT ![w].rec.Interfaces = a.slice,
                                            ![w].i = i + 1]
    /\ UNCHANGED <<recordVars, readVars, kindVars>>

\* lines 93-98
SetMetrics(w) ==
    /\ work[w].pc = "metrics"
    /\ LET am == work[w].metrics.AdditionalMetrics[1] IN
       work' = [work EXCEPT ![w].rec.TimeFlowRtt = TimeFlowRttOf(am),
                            ![w].rec.DNSLatency = DNSLatencyOf(am),
                            ![w].pc = "make"]
    /\ UNCHANGED <<heap, nextArr, recordVars, readVars, kindVars>>

\* lines 100-101: the empty slice of event metadata, and the return
MakeEvents(w) ==
    /\ work[w].pc = "make"
    /\ work' = [work EXCEPT ![w].rec.NetworkMonitorEventsMD = Slice(0, 0, 0),
                            ![w].pc = "done"]
    /\ UNCHANGED <<heap, nextArr, recordVars, readVars, kindVars>>

\* what the receiving code appends or writes
ExtraIntf == NewIntfDir(<<"br", 9>>, DirectionEgress)

\* the code that received the record appends to its Interfaces
AppendInterface(w) ==
    /\ work[w].pc = "done"
    /\ work[w].muts < MaxMutations
    /\ LET a == GoAppend(heap, nextArr, work[w].rec.Interfaces, ExtraIntf) IN
        /\ heap' = a.heap
        /\ nextArr' = a.next
        /\ work' = [work EXCEPT ![w].rec.Interfaces = a.slice,
                                ![w].muts = @ + 1,
                                ![w].expect.rec.Interfaces = Append(@, ExtraIntf)]
    /\ UNCHANGED <<recordVars, readVars, kindVars>>

\* the code that received the record overwrites an element of its Interfaces
SetInterface(w) ==
    /\ work[w].pc = "done"
    /\ work[w].muts < MaxMutations
    /\ \E k \in 1 .. work[w].rec.Interfaces.len :
        /\ heap' = [heap EXCEPT ![work[w].rec.Interfaces.arr][k] = ExtraIntf]
        /\ work' = [work EXCEPT ![w].muts = @ + 1,
                                ![w].expect.rec.Interfaces[k] = ExtraIntf]
    /\ UNCHANGED <<nextArr, recordVars, readVars, kindVars>>

\* the code that received the record appends to its NetworkMonitorEventsMD
AppendEvent(w) ==
    /\ work[w].pc = "done"
    /\ work[w].muts < MaxMutations
    /\ \E e \in {"netpol"} :
        LET a == GoAppend(heap, nextArr, work[w].rec.NetworkMonitorEventsMD, e) IN
        /\ heap' = a.heap
        /\ nextArr' = a.next
        /\ work' = [work EXCEPT ![w].rec.NetworkMonitorEventsMD = a.slice,
                                ![w].muts = @ + 1,
                                ![w].expect.rec.NetworkMonitorEventsMD = Append(@, e)]
    /\ UNCHANGED <<recordVars, readVars, kindVars>>

----------------------------------------------------------------------------
(* The e2e cluster: deployments, NewKind and its options, Run *)
(* A Go string is the sequence of its bytes, compared as Go compares strings. *)

\* Kind objects created in one process
MaxKinds == 2

\* options given to one NewKind
MaxOptions == 2

AfterAgent == 0
WithAgent == 1
NetObservServices == 2
ExternalServices == 3
Preconditions == 4

\* "permissions", "loki", "flp", "agent"
PermissionsSetup == <<112, 101, 114, 109, 105, 115, 115, 105, 111, 110, 115>>
Loki == <<108, 111, 107, 105>>
FlowLogsPipeline == <<102, 108, 112>>
Agent == <<97, 103, 101, 110, 116>>

RECURSIVE StrLess(_, _)
\* a < b on strings: byte by byte, a proper prefix first
StrLess(a, b) ==
    IF b = <<>> THEN FALSE
    ELSE IF a = <<>> THEN TRUE
    ELSE IF a[1] # b[1] THEN a[1] < b[1]
    ELSE StrLess(Tail(a), Tail(b))

RECURSIVE Itoa(_)
\* the decimal digits of n >= 0, as "%d" prints them
Itoa(n) == IF n < 10 THEN <<48 + n>> ELSE Itoa(n \div 10) \o <<48 + (n % 10)>>

\* fmt.Sprintf("%d-%s", def.Order, def.ManifestFile)
DeployIDOf(def) == Itoa(def.Order) \o <<45>> \o def.ManifestFile

\* packageDir(): an absolute directory, here "/c"
PackageDir == <<47, 99>>

\* path.Join(packageDir(), "base", file)
BaseFile(file) == PackageDir \o <<47>> \o <<98, 97, 115, 101>> \o <<47>> \o file

\* a Deployment; Ready is <<>> (nil) or <<the description of its Readiness>>
Deployment(order, file, ready) ==
    [Order |-> order, ManifestFile |-> file, Ready |-> ready]

\* the initial value of defaultBaseDeployments
\* ("01-permissions.yml", "02-loki.yml", "03-flp.yml", "04-agent.yml")
BaseDeployments ==
    (PermissionsSetup :> Deployment(Preconditions, BaseFile(<<48, 49, 45, 112, 101, 114, 109, 105, 115, 115, 105, 111, 110, 115, 46, 121, 109, 108>>), <<>>))
    @@ (Loki :> Deployment(ExternalServices, BaseFile(<<48, 50, 45, 108, 111, 107, 105, 46, 121, 109, 108>>), <<"loki reachable">>))
    @@ (FlowLogsPipeline :> Deployment(NetObservServices, BaseFile(<<48, 51, 45, 102, 108, 112, 46, 121, 109, 108>>), <<"flp pods ready">>))
    @@ (Agent :> Deployment(WithAgent, BaseFile(<<48, 52, 45, 97, 103, 101, 110, 116, 46, 121, 109, 108>>), <<"agent pods ready">>))

\* deployments given to Override: "aa.yml" and "zz.yml"
OverrideDeployments ==
    { Deployment(ExternalServices, <<97, 97, 46, 121, 109, 108>>, <<>>),
      Deployment(Preconditions, <<122, 122, 46, 121, 109, 108>>, <<"zz ready">>) }

\* deployments given to Deploy: "bb.yml" and "late.yml"
ExtraDeployments ==
    { Deployment(ExternalServices, <<98, 98, 46, 121, 109, 108>>, <<"bb ready">>),
      Deployment(AfterAgent, <<108, 97, 116, 101, 46, 121, 109, 108>>, <<>>) }

\* Override(id, def) and Deploy(def): each option is the map entry it writes
Override(id, def) == [id |-> id, def |-> def]

Deploy(def) == [id |-> DeployIDOf(def), def |-> def]

Options ==
    { Override(id, def) : id \in {Loki, Agent}, def \in OverrideDeployments }
    \cup { Deploy(def) : def \in ExtraDeployments }

OptionLists == UNION { [1 .. n -> Options] : n \in 0 .. MaxOptions }

\* m[id] = def on a Go map
MapSet(m, id, def) ==
    [k \in DOMAIN m \cup {id} |-> IF k = id THEN def ELSE m[k]]

RECURSIVE ApplyOptions(_, _, _)
\* lines 201-203: the options applied in order, from option i on, to the map
\* k.deployManifests refers to
ApplyOptions(m, options, i) ==
    IF i > Len(options) THEN m
    ELSE ApplyOptions(MapSet(m, options[i].id, options[i].def), options, i + 1)

\* the map k.deployManifests refers to.  NewKind stores the map value
\* defaultBaseDeployments in the field: the field and the package variable
\* are the same map.
DeployManifests(k) == defaultBaseDeployments

NewKind ==
    /\ ran = <<>>
    /\ Len(kinds) < MaxKinds
    /\ \E kindClusterName \in {"basic", "kafka"}, options \in OptionLists :
        /\ kinds' = Append(kinds, [clusterName     |-> kindClusterName,
                                   deployManifests |-> "defaultBaseDeployments",
                                   timeout         |-> "2m"])
        /\ defaultBaseDeployments' = ApplyOptions(defaultBaseDeployments, options, 1)
    /\ UNCHANGED <<ran, recordVars, readVars, concVars>>

\* the order a range over the map visits its keys in: any
RECURSIVE Orders(_)
Orders(keys) ==
    IF keys = {} THEN {<<>>}
    ELSE UNION { { <<k>> \o rest : rest \in Orders(keys \ {k}) } : k \in keys }

\* the comparison handed to sort.SliceStable
Less(a, b) ==
    IF a.d.Order = b.d.Order
    THEN StrLess(a.id, b.id)
    ELSE a.d.Order > b.d.Order

RECURSIVE InsertStable(_, _)
\* x put into the sorted sequence, after every element it is not less than
InsertStable(sorted, x) ==
    IF sorted = <<>> THEN <<x>>
    ELSE IF Less(x, sorted[1]) THEN <<x>> \o sorted
    ELSE <<sorted[1]>> \o InsertStable(Tail(sorted), x)

RECURSIVE SliceStable(_, _)
\* sort.SliceStable of items, from item i on, into sorted
SliceStable(items, sorted) ==
    IF items = <<>> THEN sorted
    ELSE SliceStable(Tail(items), InsertStable(sorted, items[1]))

\* orderedManifests of a map visited in the order visit
orderedManifests(m, visit) ==
    LET items  == [i \in 1 .. Len(visit) |-> [id |-> visit[i], d |-> m[visit[i]]]]
        sorted == SliceStable(items, <<>>)
    IN  [i \in 1 .. Len(sorted) |-> sorted[i].d]

deploy(c) == [fn |-> "deploy", def |-> c]

\* isReady(c): the readiness function when there is one, else a step that
\* succeeds at once
isReady(c) == [fn |-> "isReady", def |-> c]

\* faulty variant: the readiness checks are all left to the end
RECURSIVE RunLoop_NoFlush(_, _, _, _, _)
RunLoop_NoFlush(ordered, i, envFuncs, readyFuncs, currentOrder) ==
    IF i > Len(ordered) THEN envFuncs \o readyFuncs
    ELSE RunLoop_NoFlush(ordered, i + 1,
                         Append(envFuncs, deploy(ordered[i])),
                         Append(readyFuncs, isReady(ordered[i])),
                         ordered[i].Order)

\* lines 222-231: the loop over the ordered manifests, from manifest i on
RECURSIVE RunLoop(_, _, _, _, _)
RunLoop(ordered, i, envFuncs, readyFuncs, currentOrder) ==
    IF i > Len(ordered) THEN envFuncs \o readyFuncs
    ELSE LET c     == ordered[i]
             flush == c.Order # currentOrder
         IN  RunLoop(ordered, i + 1,
                     Append(IF flush THEN envFuncs \o readyFuncs ELSE envFuncs, deploy(c)),
                     Append(IF flush THEN <<>> ELSE readyFuncs, isReady(c)),
                     c.Order)

\* lines 209-231: the setup steps Run hands to the test environment
SetupSteps(ordered) ==
    RunLoop(ordered, 1,
            << [fn |-> "CreateClusterWithConfig", def |-> <<>>],
               [fn |-> "loadLocalImage", def |-> <<>>] >>,
            <<>>, Preconditions)

\* Run is called once, by TestMain, on one of the Kinds
Run ==
    /\ ran = <<>>
    /\ \E k \in 1 .. Len(kinds) :
       \E visit \in Orders(DOMAIN DeployManifests(kinds[k])) :
          LET ordered == orderedManifests(DeployManifests(kinds[k]), visit) IN
          ran' = << [kind |-> k, ordered |-> ordered, envFuncs |-> SetupSteps(ordered)] >>
    /\ UNCHANGED <<defaultBaseDeployments, kinds, recordVars, readVars, concVars>>

----------------------------------------------------------------------------
(* The calls, one after the other *)

SetGlobals ==
    \E ip \in AgentIPs, ifaceNamer \in Namers :
        LET v == SetGlobalsValues(ip, ifaceNamer) IN
        /\ agentIP' = v.agentIP
        /\ interfaceNamer' = v.interfaceNamer
        /\ lastSet' = << [ip |-> ip, ifaceNamer |-> ifaceNamer] >>
        /\ UNCHANGED <<call, readVars, concVars, kindVars>>

NewRecordCall ==
    /\ call = <<>>
    /\ \E key \in Keys, metrics \in MetricsInputs,
          currentTime \in CurrentTimes, monotonicCurrentTime \in Words :
        LET r == NewRecord(key, metrics, currentTime, monotonicCurrentTime) IN
        call' = << [op |-> "NewRecord", key |-> key, metrics |-> metrics,
                    currentTime |-> currentTime,
                    monotonicCurrentTime |-> monotonicCurrentTime,
                    set |-> lastSet,
                    ok |-> r.ok,
                    rec |-> IF r.ok THEN <<r.rec>> ELSE <<>>] >>
    /\ UNCHANGED <<agentIP, interfaceNamer, lastSet, readVars, concVars, kindVars>>

NetworkEventsMDExistCall ==
    /\ call = <<>>
    /\ \E events \in EventArrays, md \in Tags :
        call' = << [op |-> "networkEventsMDExist", events |-> events, md |-> md,
                    result |-> networkEventsMDExist(events, md)] >>
    /\ UNCHANGED <<agentIP, interfaceNamer, lastSet, readVars, concVars, kindVars>>

\* IP(ia) followed by IPAddrFromNetIP on its result
IPRoundTripCall ==
    /\ call = <<>>
    /\ \E ia \in IPAddrInputs :
        LET netIP == IP(ia)
            back  == IPAddrFromNetIP(netIP) IN
        call' = << [op |-> "IPRoundTrip", ia |-> ia, netIP |-> netIP,
                    ok |-> back.ok, back |-> back.arr] >>
    /\ UNCHANGED <<agentIP, interfaceNamer, lastSet, readVars, concVars, kindVars>>

\* the caller is done with the result of the call
Return ==
    /\ call # <<>>
    /\ call' = <<>>
    /\ UNCHANGED <<agentIP, interfaceNamer, lastSet, readVars, concVars, kindVars>>

vars == <<recordVars, readVars, concVars, kindVars>>

\* the package as initialised, before any call; no byte source is open
Init ==
    /\ agentIP = <<>>
    /\ interfaceNamer = "unset"
    /\ lastSet = <<>>
    /\ call = <<>>
    /\ source = <<>>
    /\ pos = 1
    /\ reads = <<>>
    /\ heap = <<>>
    /\ nextArr = 1
    /\ work = <<>>
    /\ defaultBaseDeployments = BaseDeployments
    /\ kinds = <<>>
    /\ ran = <<>>

Next ==
    \/ SetGlobals
    \/ NewRecordCall
    \/ NetworkEventsMDExistCall
    \/ IPRoundTripCall
    \/ Return

Spec == Init /\ [][Next]_vars

\* the calls on one byte source
NextRead == ReadFromCall

\* a byte source is opened on what it will deliver; nothing is read yet
InitRead ==
    /\ agentIP = <<>>
    /\ interfaceNamer = "unset"
    /\ lastSet = <<>>
    /\ call = <<>>
    /\ source \in Sources
    /\ pos = 1
    /\ reads = <<>>
    /\ heap = <<>>
    /\ nextArr = 1
    /\ work = <<>>
    /\ defaultBaseDeployments = BaseDeployments
    /\ kinds = <<>>
    /\ ran = <<>>

SpecRead == InitRead /\ [][NextRead]_vars

\* the globals are set once, before the workers start, and stay as set
InitConc ==
    /\ \E ip \in AgentIPs, ifaceNamer \in Namers :
          /\ agentIP = SetGlobalsValues(ip, ifaceNamer).agentIP
          /\ interfaceNamer = SetGlobalsValues(ip, ifaceNamer).interfaceNamer
          /\ lastSet = << [ip |-> ip, ifaceNamer |-> ifaceNamer] >>
    /\ call = <<>>
    /\ source = <<>>
    /\ pos = 1
    /\ reads = <<>>
    /\ heap = <<>>
    /\ nextArr = 1
    /\ work = [w \in Workers |-> IdleWorker]
    /\ defaultBaseDeployments = BaseDeployments
    /\ kinds = <<>>
    /\ ran = <<>>

NextConc ==
    \E w \in Workers :
        \/ Begin(w)
        \/ LoopStep(w)
        \/ SetMetrics(w)
        \/ MakeEvents(w)
        \/ AppendInterface(w)
        \/ SetInterface(w)
        \/ AppendEvent(w)

SpecConc == InitConc /\ [][NextConc]_vars

\* the e2e test process: Kinds are created, then Run is called on one
InitKind ==
    /\ agentIP = <<>>
    /\ interfaceNamer = "unset"
    /\ lastSet = <<>>
    /\ call = <<>>
    /\ source = <<>>
    /\ pos = 1
    /\ reads = <<>>
    /\ heap = <<>>
    /\ nextArr = 1
    /\ work = <<>>
    /\ defaultBaseDeployments = BaseDeployments
    /\ kinds = <<>>
    /\ ran = <<>>

NextKind ==
    \/ NewKind
    \/ Run

SpecKind == InitKind /\ [][NextKind]_vars

----------------------------------------------------------------------------
(* Properties of the record layer, checked under Spec *)

IsCall(op) == call # <<>> /\ call[1].op = op

BuiltRecord == IsCall("NewRecord") /\ call[1].ok

\* the capacity contract on the input of NewRecord
WithinCapacity(metrics) ==
    \/ metrics.AdditionalMetrics = <<>>
    \/ metrics.AdditionalMetrics[1].NbObservedIntf <= MaxObservedInterfaces

\* the namer in force when the call was made, from the history of SetGlobals
NamerInForce(c) == IF c.set = <<>> THEN "unset" ELSE c.set[1].ifaceNamer

\* got is currentTime - (monotonicNow - t), and not later than currentTime
Reconstructed(c, t, got) ==
    /\ got = c.currentTime - (c.monotonicCurrentTime - t)
    /\ got <= c.currentTime

\* C1 as stated: for every record timestamp t <= monotonicNow, TimeFlowStart
\* and TimeFlowEnd are each exactly currentTime - (monotonicNow - t), and not
\* later than currentTime.
C1_Original ==
    BuiltRecord =>
        LET c == call[1] IN
        /\ c.metrics.StartMonoTimeTs <= c.monotonicCurrentTime
            => Reconstructed(c, c.metrics.StartMonoTimeTs, c.rec[1].TimeFlowStart)
        /\ c.metrics.EndMonoTimeTs <= c.monotonicCurrentTime
            => Reconstructed(c, c.metrics.EndMonoTimeTs, c.rec[1].TimeFlowEnd)

\* C1 amended: the same, for every record timestamp t <= monotonicNow that is
\* at most 2^63 (half the word range) behind monotonicNow.
C1_Amended ==
    BuiltRecord =>
        LET c == call[1] IN
        /\ ( /\ c.metrics.StartMonoTimeTs <= c.monotonicCurrentTime
             /\ c.monotonicCurrentTime - c.metrics.StartMonoTimeTs <= Modulus \div 2 )
            => Reconstructed(c, c.metrics.StartMonoTimeTs, c.rec[1].TimeFlowStart)
        /\ ( /\ c.metrics.EndMonoTimeTs <= c.monotonicCurrentTime
             /\ c.monotonicCurrentTime - c.metrics.EndMonoTimeTs <= Modulus \div 2 )
            => Reconstructed(c, c.metrics.EndMonoTimeTs, c.rec[1].TimeFlowEnd)

\* a record whose start lies exactly half the word range back and whose end
\* lies less far back, both reconstructed before currentTime
C1_Witness ==
    /\ BuiltRecord
    /\ LET c == call[1] IN
        /\ c.monotonicCurrentTime - c.metrics.StartMonoTimeTs = Modulus \div 2
        /\ c.metrics.EndMonoTimeTs > c.metrics.StartMonoTimeTs
        /\ c.metrics.EndMonoTimeTs < c.monotonicCurrentTime
        /\ c.rec[1].TimeFlowStart = c.currentTime - Modulus \div 2
        /\ c.rec[1].TimeFlowStart < c.rec[1].TimeFlowEnd
        /\ c.rec[1].TimeFlowEnd < c.currentTime

\* C2: with NbObservedIntf = n within capacity, NewRecord returns a record
\* whose Interfaces has exactly 1 + n entries: the first-seen pair, then the
\* n observed pairs in stored order, repeated pairs included; with no
\* AdditionalMetrics it is the first-seen pair alone.
C2_Interfaces ==
    (IsCall("NewRecord") /\ WithinCapacity(call[1].metrics)) =>
        LET c     == call[1]
            m     == c.metrics
            namer == NamerInForce(c)
            n     == IF m.AdditionalMetrics = <<>> THEN 0
                     ELSE m.AdditionalMetrics[1].NbObservedIntf
        IN  /\ c.ok
            /\ Len(c.rec[1].Interfaces) = 1 + n
            /\ c.rec[1].Interfaces[1] =
                  [Interface |-> ApplyNamer(namer, m.IfIndexFirstSeen),
                   Direction |-> m.DirectionFirstSeen]
            /\ \A i \in 1 .. n :
                  c.rec[1].Interfaces[i + 1] =
                      [Interface |-> ApplyNamer(namer, m.AdditionalMetrics[1].ObservedIntf[i].IfIndex),
                       Direction |-> m.AdditionalMetrics[1].ObservedIntf[i].Direction]

\* a record built from four observed interfaces, two of them the same pair
C2_Witness ==
    /\ BuiltRecord
    /\ call[1].metrics.AdditionalMetrics # <<>>
    /\ call[1].metrics.AdditionalMetrics[1].NbObservedIntf = MaxObservedInterfaces
    /\ Len(call[1].rec[1].Interfaces) = MaxObservedInterfaces + 1
    /\ call[1].rec[1].Interfaces[2] = call[1].rec[1].Interfaces[4]
    /\ call[1].rec[1].Interfaces[2] # call[1].rec[1].Interfaces[3]

\* the interface indexes NewRecord resolves, in the order of Interfaces
ResolvedIndexes(m) ==
    <<m.IfIndexFirstSeen>> \o
    (IF m.AdditionalMetrics = <<>> THEN <<>>
     ELSE [i \in 1 .. m.AdditionalMetrics[1].NbObservedIntf |->
              m.AdditionalMetrics[1].ObservedIntf[i].IfIndex])

\* C4: a record built by NewRecord carries the address given to the latest
\* SetGlobals before it and the names that call's namer gives; before any
\* SetGlobals, NewRecord does not fail and every name is the placeholder
\* "[namer unset] <ifIndex>".
C4_Globals ==
    (IsCall("NewRecord") /\ WithinCapacity(call[1].metrics)) =>
        LET c   == call[1]
            idx == ResolvedIndexes(c.metrics)
        IN  IF c.set = <<>>
            THEN /\ c.ok
                 /\ \A i \in 1 .. Len(idx) :
                       c.rec[1].Interfaces[i].Interface = <<"[namer unset] ", idx[i]>>
            ELSE /\ c.ok
                 /\ c.rec[1].AgentIP = c.set[1].ip
                 /\ \A i \in 1 .. Len(idx) :
                       c.rec[1].Interfaces[i].Interface =
                           ApplyNamer(c.set[1].ifaceNamer, idx[i])

\* a record built after SetGlobals, with that call's address and names
C4_Witness ==
    /\ BuiltRecord
    /\ call[1].set # <<>>
    /\ call[1].set[1].ifaceNamer = "byIndex"
    /\ call[1].rec[1].AgentIP = <<192, 168, 0, 7>>
    /\ Len(call[1].rec[1].Interfaces) = 3
    /\ call[1].rec[1].Interfaces[1].Interface = <<"eth", 3>>

\* some slot of events holds the same bytes as md
SomeSlotEquals(events, md) ==
    \E i \in 1 .. MaxNetworkEvents :
        \A j \in 1 .. NetworkEventsMaxEventsMD : events[i][j] = md[j]

AllSlotsEmpty(events) ==
    \A i \in 1 .. MaxNetworkEvents : AllZerosMetaData(events[i])

\* C6 as stated: networkEventsMDExist is true iff the candidate equals some
\* entry, and false when all slots are empty or no entry matches, for every
\* candidate, the all-zero tag included.
C6_Original ==
    IsCall("networkEventsMDExist") =>
        LET c == call[1] IN
        /\ c.result <=> SomeSlotEquals(c.events, c.md)
        /\ AllSlotsEmpty(c.events) => ~c.result
        /\ ~SomeSlotEquals(c.events, c.md) => ~c.result

\* C6 amended: networkEventsMDExist is true iff the candidate equals some slot,
\* an empty (all-zero) slot counting as a slot; when all slots are empty it is
\* false for every non-zero candidate and true for the all-zero candidate.
C6_Amended ==
    IsCall("networkEventsMDExist") =>
        LET c == call[1] IN
        /\ c.result <=> SomeSlotEquals(c.events, c.md)
        /\ AllSlotsEmpty(c.events) => (c.result <=> AllZerosMetaData(c.md))

\* the all-zero candidate looked up among two entries and two empty slots
C6_Witness ==
    /\ IsCall("networkEventsMDExist")
    /\ AllZerosMetaData(call[1].md)
    /\ ~AllZerosMetaData(call[1].events[1])
    /\ ~AllZerosMetaData(call[1].events[2])
    /\ AllZerosMetaData(call[1].events[3])
    /\ AllZerosMetaData(call[1].events[4])
    /\ call[1].result

\* C7 as stated: TimeFlowRtt is the FlowRtt value when AdditionalMetrics is
\* present and FlowRtt is non-zero, and zero otherwise; DNSLatency likewise
\* from DnsRecord.Latency; each independently of the other.
C7_Original ==
    BuiltRecord =>
        LET c  == call[1]
            am == c.metrics.AdditionalMetrics
        IN  /\ c.rec[1].TimeFlowRtt =
                  IF am # <<>> /\ am[1].FlowRtt # 0 THEN am[1].FlowRtt ELSE 0
            /\ c.rec[1].DNSLatency =
                  IF am # <<>> /\ am[1].DnsRecord.Latency # 0
                  THEN am[1].DnsRecord.Latency ELSE 0

\* a 64-bit unsigned count read as a signed one
AsSigned(u) == IF u < Modulus \div 2 THEN u ELSE u - Modulus

\* C7 amended: the same, with the value read as a signed 64-bit count of
\* nanoseconds: the value itself below 2^63, the value minus 2^64 from there on.
C7_Amended ==
    BuiltRecord =>
        LET c  == call[1]
            am == c.metrics.AdditionalMetrics
        IN  /\ c.rec[1].TimeFlowRtt =
                  IF am # <<>> /\ am[1].FlowRtt # 0 THEN AsSigned(am[1].FlowRtt) ELSE 0
            /\ c.rec[1].DNSLatency =
                  IF am # <<>> /\ am[1].DnsRecord.Latency # 0
                  THEN AsSigned(am[1].DnsRecord.Latency) ELSE 0

\* a record with a measured RTT and no DNS latency
C7_Witness ==
    /\ BuiltRecord
    /\ call[1].metrics.AdditionalMetrics # <<>>
    /\ call[1].metrics.AdditionalMetrics[1].FlowRtt = 1
    /\ call[1].metrics.AdditionalMetrics[1].DnsRecord.Latency = 0
    /\ call[1].rec[1].TimeFlowRtt = 1
    /\ call[1].rec[1].DNSLatency = 0

\* C8: for every 16-byte address, v4-mapped or native v6, IPAddrFromNetIP of
\* IP of it is the same 16 bytes.
C8_RoundTrip ==
    IsCall("IPRoundTrip") =>
        /\ call[1].ok
        /\ \A i \in 1 .. IPv6len : call[1].back[i] = call[1].ia[i]

\* a v4-mapped address that went through both conversions
C8_Witness ==
    /\ IsCall("IPRoundTrip")
    /\ \A i \in 1 .. 10 : call[1].ia[i] = 0
    /\ call[1].ia[11] = 255 /\ call[1].ia[12] = 255
    /\ call[1].ia[15] = 1 /\ call[1].ia[16] = 255
    /\ call[1].ok
    /\ call[1].back[16] = 255 /\ call[1].back[11] = 255

\* got is currentTime + (t - monotonicNow), later than currentTime, and comes
\* from the wrapped difference read as a negative duration
Underflowed(c, t, got) ==
    LET ahead == t - c.monotonicCurrentTime IN
    /\ SubU64(c.monotonicCurrentTime, t) = Modulus - ahead
    /\ ToDuration(SubU64(c.monotonicCurrentTime, t)) = -ahead
    /\ got = c.currentTime + ahead
    /\ got > c.currentTime

\* t is ahead of monotonicNow by less than 2^63 (half the word range)
AheadOfNow(c, t) ==
    /\ t > c.monotonicCurrentTime
    /\ t - c.monotonicCurrentTime < Modulus \div 2

\* C11: NewRecord neither clamps nor validates the record timestamps: for a
\* timestamp t > monotonicNow with t - monotonicNow < 2^63 the unsigned
\* difference wraps, reads as the duration -(t - monotonicNow), and the
\* reconstructed time is currentTime + (t - monotonicNow), strictly later
\* than currentTime; NewRecord still returns a record.
C11_Underflow ==
    (IsCall("NewRecord") /\ WithinCapacity(call[1].metrics)) =>
        LET c == call[1] IN
        /\ AheadOfNow(c, c.metrics.StartMonoTimeTs) =>
              /\ c.ok
              /\ Underflowed(c, c.metrics.StartMonoTimeTs, c.rec[1].TimeFlowStart)
        /\ AheadOfNow(c, c.metrics.EndMonoTimeTs) =>
              /\ c.ok
              /\ Underflowed(c, c.metrics.EndMonoTimeTs, c.rec[1].TimeFlowEnd)

\* a record whose start timestamp is two ticks ahead of monotonicNow and whose
\* end timestamp is behind it: the start is rebuilt after currentTime, the end
\* before
C11_Witness ==
    /\ BuiltRecord
    /\ LET c == call[1] IN
        /\ c.metrics.StartMonoTimeTs = c.monotonicCurrentTime + 2
        /\ c.metrics.EndMonoTimeTs = c.monotonicCurrentTime - 1
        /\ c.rec[1].TimeFlowStart = c.currentTime + 2
        /\ c.rec[1].TimeFlowEnd = c.currentTime - 1

----------------------------------------------------------------------------
(* Properties of ReadFrom, checked under SpecRead *)

RECURSIVE Avail(_, _)
\* the number of bytes the source delivers from position p on before it ends
\* or fails
Avail(src, p) ==
    IF p > Len(src) \/ src[p].kind # "byte" THEN 0 ELSE 1 + Avail(src, p + 1)

\* position p is the start of a written record that is delivered in full
WholeRecordAt(src, p) ==
    /\ p + RecordBytes - 1 <= Len(src)
    /\ \A i \in 0 .. (RecordBytes - 1) :
          /\ src[p + i].kind = "byte"
          /\ src[p + i].off = i
          /\ src[p + i].rec = src[p].rec

BytesAt(src, p) == [i \in 1 .. RecordBytes |-> src[p + i - 1].val]

\* the call returns an error exactly when fewer bytes than a record come
\* before the source ends or fails
ErrorIffShort(r) == (r.err # "nil") <=> (Avail(source, r.from) < RecordBytes)

\* C3 as stated: a call returns an error exactly when the source ends or fails
\* before a full record is read, and after a failed call every call that
\* returns a record returns one the producer wrote, decoded from its own bytes
\* and from none of the failed record's.
C3_Original ==
    \A n \in 1 .. Len(reads) :
        LET r == reads[n] IN
        /\ ErrorIffShort(r)
        /\ ( /\ r.err = "nil"
             /\ \E k \in 1 .. (n - 1) : reads[k].err # "nil" )
            => ( /\ WholeRecordAt(source, r.from)
                 /\ r.rec \in RecordValues
                 /\ Encode(r.rec) = BytesAt(source, r.from) )

\* C3 amended: a call returns an error exactly when the source ends or fails
\* before a full record is read.  A failed call consumes the bytes delivered
\* before the failure, and the failure, and nothing else; every call starts at
\* the first item the calls before it left, and a call that returns a record
\* decoded it from the next RecordBytes bytes.  So a call that starts at a
\* written record delivered in full returns that record, decoded correctly;
\* the rest of a failed record, when it is delivered after the failure, is
\* read as the beginning of the next result.
C3_Amended ==
    \A n \in 1 .. Len(reads) :
        LET r == reads[n]
            a == Avail(source, r.from)
        IN
        /\ ErrorIffShort(r)
        /\ r.from = IF n = 1 THEN 1 ELSE reads[n - 1].to
        /\ r.err # "nil" =>
              /\ r.rec = ZeroRecord
              /\ r.to = r.from + a + (IF r.from + a <= Len(source) THEN 1 ELSE 0)
              /\ r.err = IF r.from + a <= Len(source) /\ source[r.from + a].kind = "err"
                         THEN "ErrRead"
                         ELSE IF a = 0 THEN "EOF" ELSE "ErrUnexpectedEOF"
        /\ r.err = "nil" =>
              /\ r.to \in {r.from + RecordBytes, r.from + RecordBytes + 1}
              /\ r.to = r.from + RecordBytes + 1 => source[r.to - 1].kind # "byte"
              /\ r.rec.A = source[r.from].val
              /\ r.rec.B < 256 ^ (RecordBytes - 1)
              /\ \A i \in 1 .. (RecordBytes - 1) :
                    (r.rec.B \div (256 ^ (i - 1))) % 256 = source[r.from + i].val
        /\ WholeRecordAt(source, r.from) =>
              /\ r.err = "nil"
              /\ r.rec \in RecordValues
              /\ Encode(r.rec) = BytesAt(source, r.from)

\* a read fails one byte into a record whose rest is never delivered, and the
\* next call returns the next record
C3_Witness ==
    /\ Len(reads) >= 2
    /\ reads[1].err = "ErrRead"
    /\ reads[1].to = reads[1].from + 2
    /\ reads[2].err = "nil"
    /\ WholeRecordAt(source, reads[2].from)
    /\ reads[2].rec = [A |-> 2, B |-> 258]

----------------------------------------------------------------------------
(* Properties of concurrent NewRecord calls, checked under SpecConc *)

\* the record of worker w as its holder sees it: each slice by its elements
View(w) ==
    [work[w].rec EXCEPT !.Interfaces = Elements(heap, @),
                        !.NetworkMonitorEventsMD = Elements(heap, @)]

Building(w) == work[w].pc \in {"loop", "metrics", "make"}

\* C5: under any interleaving of NewRecord calls, with the globals set and
\* left alone, every returned record is the one its call returns when run
\* alone, changed only by what was appended to or written into its own
\* sequences; no two records share the array behind their Interfaces or
\* behind their NetworkMonitorEventsMD.
C5_OwnSequences ==
    \A w \in Workers :
        /\ work[w].pc = "done" =>
              /\ work[w].expect.ok
              /\ View(w) = work[w].expect.rec
        /\ work[w].pc = "panic" => ~work[w].expect.ok
        /\ Building(w) =>
              Elements(heap, work[w].rec.Interfaces) =
                  SubSeq(work[w].expect.rec.Interfaces, 1, work[w].rec.Interfaces.len)
        /\ \A v \in Workers \ {w} :
              (work[w].pc # "idle" /\ work[v].pc # "idle") =>
                  /\ work[w].rec.Interfaces.arr # work[v].rec.Interfaces.arr
                  /\ \/ work[w].rec.NetworkMonitorEventsMD.cap = 0
                     \/ work[w].rec.NetworkMonitorEventsMD.arr #
                            work[v].rec.NetworkMonitorEventsMD.arr

\* two calls that ran interleaved (both literals were allocated before either
\* loop appended), each with one observed interface, each record changed
\* afterwards by its holder
C5_Witness ==
    /\ work[1].pc = "done" /\ work[2].pc = "done"
    /\ work[1].muts = 1 /\ work[2].muts = 1
    /\ work[1].rec.Interfaces.arr = 3
    /\ work[2].rec.Interfaces.arr = 4
    /\ work[1].rec.NetworkMonitorEventsMD.len = 1
    /\ work[2].rec.Interfaces.len = 2
    /\ View(2).Interfaces[1] = ExtraIntf
    /\ View(1).Interfaces[1] # ExtraIntf

----------------------------------------------------------------------------
(* The deployment order and the setup steps of Run *)

\* the deployments registered in the Kind that Run was called on
Registered == DeployManifests(kinds[ran[1].kind])

\* how many entries of the map hold the deployment d
TimesRegistered(d) == Cardinality({ id \in DOMAIN Registered : Registered[id] = d })

\* each registered deployment is in the sequence exactly once
EachOnce(ordered) ==
    /\ Len(ordered) = Cardinality(DOMAIN Registered)
    /\ \A id \in DOMAIN Registered :
          Cardinality({ i \in 1 .. Len(ordered) : ordered[i] = Registered[id] })
              = TimesRegistered(Registered[id])

\* a <= b on strings
StrLeq(a, b) == ~StrLess(b, a)

\* C9, as the specification states it: orderedManifests returns each
\* registered deployment exactly once, by Order descending, and deployments of
\* equal Order by the alphabetical order of their manifest file.
C9_Original ==
    ran # <<>> =>
        LET ordered == ran[1].ordered IN
        /\ EachOnce(ordered)
        /\ \A i, j \in 1 .. Len(ordered) :
              i < j =>
                 /\ ordered[i].Order >= ordered[j].Order
                 /\ ordered[i].Order = ordered[j].Order
                       => StrLeq(ordered[i].ManifestFile, ordered[j].ManifestFile)

\* the indexes of the steps made by fn
StepsOf(steps, fn) == { i \in 1 .. Len(steps) : steps[i].fn = fn }

\* C10: the steps Run builds start with the cluster creation and the image
\* load; every registered deployment has exactly one deploy step and one
\* readiness step; the deploy steps of an Order come before the readiness
\* steps of that Order, and the readiness steps of an Order come before the
\* deploy steps of every lower Order.
C10_SetupSteps ==
    ran # <<>> =>
        LET steps   == ran[1].envFuncs
            deploys == StepsOf(steps, "deploy")
            readys  == StepsOf(steps, "isReady")
        IN  /\ Len(steps) = 2 + 2 * Cardinality(DOMAIN Registered)
            /\ steps[1].fn = "CreateClusterWithConfig"
            /\ steps[2].fn = "loadLocalImage"
            /\ deploys \cup readys = 3 .. Len(steps)
            /\ \A id \in DOMAIN Registered :
                  /\ Cardinality({ i \in deploys : steps[i].def = Registered[id] })
                        = TimesRegistered(Registered[id])
                  /\ Cardinality({ i \in readys : steps[i].def = Registered[id] })
                        = TimesRegistered(Registered[id])
            /\ \A i \in deploys, j \in readys :
                  /\ steps[i].def.Order = steps[j].def.Order => i < j
                  /\ steps[j].def.Order > steps[i].def.Order => j < i

\* Run built the steps of a Kind with two deployments of one Order, deployed
\* one after the other and then checked, before a deployment of a lower Order
C10_Witness ==
    /\ ran # <<>>
    /\ LET steps == ran[1].envFuncs IN
       \E i \in 3 .. Len(steps) - 4 :
          /\ steps[i].fn = "deploy"
          /\ steps[i + 1].fn = "deploy"
          /\ steps[i + 1].def.Order = steps[i].def.Order
          /\ steps[i + 2].fn = "isReady"
          /\ steps[i + 3].fn = "isReady"
          /\ steps[i + 4].fn = "deploy"
          /\ steps[i + 4].def.Order < steps[i].def.Order

----------------------------------------------------------------------------
(* The frame of NewKind and its options *)

\* C12, as the specification states it: the options given to one Kind change
\* that Kind's manifest set only.  No step changes the package-level
\* defaultBaseDeployments or the manifest set of a Kind that exists already,
\* so a Kind created later starts from the unchanged defaults.
C12_Original ==
    [][ /\ defaultBaseDeployments' = defaultBaseDeployments
        /\ \A k \in 1 .. Len(kinds) :
              DeployManifests(kinds[k])' = DeployManifests(kinds[k]) ]_vars

====
